---- MODULE Spec2Model ----
(***************************************************************************)
(* github-to-discourse: the checkpointed migration of GitHub issues.       *)
(*                                                                         *)
(* Three programs of the repository are modelled over one set of           *)
(* variables:                                                              *)
(*   - src/main.go: the fresh run (modes "test"/"migrate", func process)   *)
(*     and the resume pass (mode "continue") over the state file;          *)
(*   - src/unnamed/part_000: the run modes dryRun and liveRun;             *)
(*   - the line parser and fold of the resume pass, exercised on arbitrary *)
(*     file contents.                                                      *)
(* Strings are sequences of one-character strings, so that formatting and  *)
(* splitting are computed as the code computes them.                       *)
(***************************************************************************)
EXTENDS Integers, Sequences, FiniteSets, TLC

\* ---------------------------------------------------------------- bounds
MaxRuns == 2
MaxFaults == 1
MaxLines == 3

\* ------------------------------------------------------ program constants
discourseDone == 1
commentDone == 2
closeDone == 3
lockDone == 4
maxCount == 1
iotaDiscourseDone == 0
iotaCommentDone == 1
iotaCloseDone == 2
iotaLockDone == 3
ThreeMonths == 3

\* ------------------------------------------------------------- strings
NL == "\n"
SP == " "
SL == "/"
Digits == <<"0", "1", "2", "3", "4", "5", "6", "7", "8", "9">>

IsDigit(c) == \E d \in 1..10 : Digits[d] = c

DigitVal(c) == (CHOOSE d \in 1..10 : Digits[d] = c) - 1

\* strconv.Itoa / fmt's %d of an int
RECURSIVE Itoa(_)
Itoa(n) ==
    IF n < 0 THEN <<"-">> \o Itoa(0 - n)
    ELSE IF n < 10 THEN <<Digits[n + 1]>>
    ELSE Itoa(n \div 10) \o <<Digits[(n % 10) + 1]>>

RECURSIVE DigitsVal(_, _)
DigitsVal(s, acc) ==
    IF s = <<>> THEN acc ELSE DigitsVal(Tail(s), acc * 10 + DigitVal(Head(s)))

\* strconv.Atoi: an optional sign, then one or more decimal digits;
\* anything else is a syntax error and the value is 0
Atoi(s) ==
    LET signed == s # <<>> /\ Head(s) \in {"+", "-"}
        body == IF signed THEN Tail(s) ELSE s
        ok == body # <<>> /\ \A n \in 1..Len(body) : IsDigit(body[n])
    IN  IF ~ok THEN [val |-> 0, err |-> TRUE]
        ELSE [val |-> IF signed /\ Head(s) = "-" THEN 0 - DigitsVal(body, 0)
                      ELSE DigitsVal(body, 0),
              err |-> FALSE]

\* strings.Split(s, sep) for a one-character separator
RECURSIVE Split(_, _)
Split(s, sep) ==
    IF \A n \in 1..Len(s) : s[n] # sep THEN <<s>>
    ELSE LET n == CHOOSE m \in 1..Len(s) :
                      s[m] = sep /\ \A q \in 1..(m - 1) : s[q] # sep
         IN  <<SubSeq(s, 1, n - 1)>> \o Split(SubSeq(s, n + 1, Len(s)), sep)

\* ------------------------------------------------------------- issues
\* The open issues the listing returns: issues 1 and 2 of repository o/a,
\* issue 3 of repository o/b.
IssueIds == {1, 2, 3}

RepoNames == <<"a", "b">>

RepoIssues == <<(<<1, 2>>), (<<3>>)>>

RepoOf(n) == IF n \in {1, 2} THEN "a" ELSE "b"

Login(n) == <<"u", Digits[n + 1]>>

\* i.GetHTMLURL(): https://github.com/<owner>/<repo>/issues/<number>
HTMLURL(n) ==
    <<"h", ":", SL, SL, "g", SL, "o", SL, RepoOf(n), SL, "i", SL>> \o Itoa(n)

\* the topic URL the n-th created Discourse topic gets
TopicURL(n) == <<"d", SL>> \o Itoa(n)

\* fmt.Sprintf of a comment template: activeTpl has two %s verbs, staleTpl
\* one. A verb without an argument prints %!s(MISSING); arguments without
\* a verb are appended as %!(EXTRA ...).
MISSING == <<"%", "!", "s", "(", "M", "I", "S", "S", "I", "N", "G", ")">>

Verbs(tpl) == IF tpl = "activeTpl" THEN 2 ELSE 1

Sprintf(tpl, args) ==
    [tpl   |-> tpl,
     slots |-> [n \in 1..Verbs(tpl) |-> IF n <= Len(args) THEN args[n] ELSE MISSING],
     extra |-> IF Len(args) > Verbs(tpl)
               THEN SubSeq(args, Verbs(tpl) + 1, Len(args)) ELSE <<>>]

\* ------------------------------------------------------------- state
VARIABLES
    isPR,        \* issue -> i.IsPullRequest()
    updatedAt,   \* issue -> i.GetUpdatedAt()
    open,        \* the issues GitHub lists as open
    topics,      \* number of Discourse topics created so far
    now,         \* time.Now()
    data,        \* content of the checkpoint file
    off,         \* write offset of liveRun's file handle
    mode,        \* "idle", or the mode of the run in progress
    pc,          \* position of the run in its code
    issues,      \* the issue list being processed
    j,           \* index of the repository being processed (main.go)
    k,           \* index into issues; in the resume pass the counter k
    url,         \* the topic URL the discourse call returned
    commentTpl,  \* liveRun.process: the comment template chosen
    stats,       \* process's stats (main.go); run.stats of run (part_000)
    recv,        \* the stats of process's receiver copy (part_000)
    mainStats,   \* main's var stats
    lines,       \* resume: the lines of the file
    li,          \* resume: index of the next line
    issueStates, \* resume: url -> RestoredIssue
    visited,     \* resume: keys the range loop has been through
    cur,         \* resume: the restored issue being continued
    ret,         \* how the last run ended
    runs,        \* number of runs started
    faults,      \* number of failures so far
    hist         \* history of external calls and checkpoint writes

vars == <<isPR, updatedAt, open, topics, now, data, off, mode, pc, issues, j, k,
          url, commentTpl, stats, recv, mainStats, lines, li, issueStates, visited, cur,
          ret, runs, faults, hist>>

world == <<isPR, updatedAt, commentTpl>>
resumeVars == <<lines, li, issueStates, visited, cur>>

\* type RunStats / runStats; isnil marks the nil *RunStats
ZeroStats == [isnil |-> FALSE, Processed |-> 0, Stale |-> 0, Active |-> 0, PullRequest |-> 0]

NilStats == [isnil |-> TRUE, Processed |-> 0, Stale |-> 0, Active |-> 0, PullRequest |-> 0]

NoIssue == [URL |-> <<>>, Owner |-> <<>>, Repo |-> <<>>, IssNum |-> 0, Done |-> 0,
            Extra |-> <<>>, iss |-> 0]

NoRet == [exit |-> "none", mode |-> "idle", stats |-> NilStats, err |-> FALSE]

\* faulty variant: the issue updated exactly three months ago counts as stale
isStaleAtBoundary(n) == updatedAt[n] <= now - ThreeMonths

\* isStale: i.GetUpdatedAt().Before(time.Now().AddDate(0, -3, 0))
isStale(n) == updatedAt[n] < now - ThreeMonths

\* client.Issues.ListByRepo(ctx, owner, name, State: "open")
ListByRepo(r) == SelectSeq(RepoIssues[r], LAMBDA n : n \in open)

NoBody == [tpl |-> "none", slots |-> <<>>, extra |-> <<>>]

\* one event of the history: an external call (op "discourse", "comment",
\* "close", "lock"), a checkpoint write (op "save"), or a classification
\* (op "pr", "active", "stale"), the entry of the resume pass into an
\* issue (op "resume") or a line it reports (op "report")
Event(op, n, ok, step, text, body) ==
    [run |-> runs, mode |-> mode, at |-> now, op |-> op, iss |-> n, ok |-> ok,
     step |-> step, text |-> text, body |-> body]

Call(op, n, ok) == Event(op, n, ok, 0, <<>>, NoBody)

Saved(n, ok, step, extra) == Event("save", n, ok, step, extra, NoBody)

\* faulty variant: the format string loses the space before the extra
saveStateLineNoSpace(u, state, extra) ==
    u \o <<SP>> \o Itoa(state) \o extra \o <<NL>>

\* the line saveState formats: fmt.Sprintf("%s %d %s\n", url, state, extra)
saveStateLine(u, state, extra) ==
    u \o <<SP>> \o Itoa(state) \o <<SP>> \o extra \o <<NL>>

\* f.WriteString on a file opened with O_APPEND
AppendWrite(content, line) == content \o line

Outcomes == IF faults < MaxFaults THEN {TRUE, FALSE} ELSE {TRUE}

Fault(ok) == faults' = IF ok THEN faults ELSE faults + 1

\* time passes between two runs; it is followed for as long as it can still
\* turn an active issue into a stale one
Tick ==
    /\ mode = "idle" /\ runs < MaxRuns
    /\ \E n \in IssueIds : ~isStale(n)
    /\ now' = now + 1
    /\ UNCHANGED <<world, open, topics, data, off, mode, pc, issues, j, k, url, stats,
                   recv, mainStats, resumeVars, ret, runs, faults, hist>>

\* ------------------------------------------------ main.go: the fresh run
\* main, modes "test" and "migrate" (lines 278-314): the state file is
\* opened with O_APPEND and process is called on the first repository
StartFresh ==
    /\ mode = "idle" /\ runs < MaxRuns
    /\ runs' = runs + 1
    /\ mode' = "migrate"
    /\ j' = 1 /\ k' = 1
    /\ issues' = ListByRepo(1)
    /\ stats' = ZeroStats
    /\ mainStats' = NilStats
    /\ pc' = "loop"
    /\ ret' = NoRet
    /\ url' = <<>>
    /\ UNCHANGED <<world, open, topics, now, data, off, recv, resumeVars, faults, hist>>

\* process returns (stats, nil) to main's loop over baseRepos (305-320):
\* the next repository is processed, or the loop ends
ReturnToMain ==
    /\ mainStats' = stats
    /\ IF j < Len(RepoNames)
       THEN /\ j' = j + 1 /\ k' = 1
            /\ issues' = ListByRepo(j + 1)
            /\ stats' = ZeroStats
            /\ pc' = "loop"
       ELSE /\ pc' = "report"
            /\ UNCHANGED <<j, k, issues, stats>>

\* process returns (nil, err): main prints the error and exits with 1
ExitOnError ==
    /\ mode' = "idle" /\ pc' = "exit"
    /\ ret' = [exit |-> "error", mode |-> mode, stats |-> NilStats, err |-> TRUE]

\* the continue statement of process's loop
NextIssue == k' = k + 1 /\ pc' = "loop"

\* process, line 94: the range loop is over
ProcessReturn ==
    /\ mode = "migrate" /\ pc = "loop" /\ k > Len(issues)
    /\ ReturnToMain
    /\ UNCHANGED <<world, open, topics, now, data, off, mode, url, recv, resumeVars,
                   ret, runs, faults, hist>>

\* process, lines 100-106: skip if PR
ProcessSkipPR ==
    /\ mode = "migrate" /\ pc = "loop" /\ k <= Len(issues)
    /\ isPR[issues[k]]
    /\ stats' = [stats EXCEPT !.PullRequest = @ + 1]
    /\ hist' = Append(hist, Call("pr", issues[k], TRUE))
    /\ NextIssue
    /\ UNCHANGED <<world, open, topics, now, data, off, mode, issues, j, url, recv,
                   mainStats, resumeVars, ret, runs, faults>>

\* process, lines 108-113: short circuit if reached processing limit
ProcessLimit ==
    /\ mode = "migrate" /\ pc = "loop" /\ k <= Len(issues)
    /\ ~isPR[issues[k]]
    /\ stats.Processed = maxCount
    /\ ReturnToMain
    /\ UNCHANGED <<world, open, topics, now, data, off, mode, url, recv, resumeVars,
                   ret, runs, faults, hist>>

\* faulty variant: the issue is classified without regard to the limit
ProcessClassifyUnlimited ==
    /\ mode = "migrate" /\ pc = "loop" /\ k <= Len(issues)
    /\ ~isPR[issues[k]]
    /\ IF ~isStale(issues[k])
       THEN /\ stats' = [stats EXCEPT !.Active = @ + 1]
            /\ hist' = Append(hist, Call("active", issues[k], TRUE))
            /\ pc' = "discourse"
       ELSE /\ stats' = [stats EXCEPT !.Stale = @ + 1]
            /\ hist' = Append(hist, Call("stale", issues[k], TRUE))
            /\ pc' = "commentStale"
    /\ url' = <<>>
    /\ UNCHANGED <<world, open, topics, now, data, off, mode, issues, j, k, recv,
                   mainStats, resumeVars, ret, runs, faults>>

\* process, lines 117-121 and 141-145: the issue is classified
ProcessClassify ==
    /\ mode = "migrate" /\ pc = "loop" /\ k <= Len(issues)
    /\ ~isPR[issues[k]]
    /\ stats.Processed # maxCount
    /\ IF ~isStale(issues[k])
       THEN /\ stats' = [stats EXCEPT !.Active = @ + 1]
            /\ hist' = Append(hist, Call("active", issues[k], TRUE))
            /\ pc' = "discourse"
       ELSE /\ stats' = [stats EXCEPT !.Stale = @ + 1]
            /\ hist' = Append(hist, Call("stale", issues[k], TRUE))
            /\ pc' = "commentStale"
    /\ url' = <<>>
    /\ UNCHANGED <<world, open, topics, now, data, off, mode, issues, j, k, recv,
                   mainStats, resumeVars, ret, runs, faults>>

\* process, lines 123-129: url, err := discourse(tc, i, mode)
ProcessDiscourse ==
    /\ mode = "migrate" /\ pc = "discourse"
    /\ \E ok \in Outcomes :
          /\ Fault(ok)
          /\ hist' = Append(hist, Event("discourse", issues[k], ok, 0,
                                        IF ok THEN TopicURL(topics + 1) ELSE <<>>, NoBody))
          /\ IF ok
             THEN /\ topics' = topics + 1
                  /\ url' = TopicURL(topics + 1)
                  /\ pc' = "save1"
                  /\ k' = k
             ELSE /\ NextIssue
                  /\ UNCHANGED <<topics, url>>
    /\ UNCHANGED <<world, open, now, data, off, mode, issues, j, stats, recv,
                   mainStats, resumeVars, ret, runs>>

\* the comment process posts: fmt.Sprintf(activeTpl, url) on the active
\* branch (line 136), fmt.Sprintf(staleTpl) on the stale one (line 148)
ProcessCommentBody(p) ==
    IF p = "comment" THEN Sprintf("activeTpl", <<url>>) ELSE Sprintf("staleTpl", <<>>)

\* process, lines 135-140 and 147-152: comment(tc, i, ...)
ProcessComment ==
    /\ mode = "migrate" /\ pc \in {"comment", "commentStale"}
    /\ \E ok \in Outcomes :
          /\ Fault(ok)
          /\ hist' = Append(hist, Event("comment", issues[k], ok, 0, <<>>,
                                        ProcessCommentBody(pc)))
          /\ IF ok THEN pc' = "save2" /\ k' = k ELSE NextIssue
    /\ UNCHANGED <<world, open, topics, now, data, off, mode, issues, j, url, stats,
                   recv, mainStats, resumeVars, ret, runs>>

\* process, lines 159-164: close(tc, i)
ProcessClose ==
    /\ mode = "migrate" /\ pc = "close"
    /\ \E ok \in Outcomes :
          /\ Fault(ok)
          /\ hist' = Append(hist, Call("close", issues[k], ok))
          /\ open' = IF ok THEN open \ {issues[k]} ELSE open
          /\ IF ok THEN pc' = "save3" /\ k' = k ELSE NextIssue
    /\ UNCHANGED <<world, topics, now, data, off, mode, issues, j, url, stats,
                   recv, mainStats, resumeVars, ret, runs>>

\* process, lines 170-175: lock(tc, i)
ProcessLock ==
    /\ mode = "migrate" /\ pc = "lock"
    /\ \E ok \in Outcomes :
          /\ Fault(ok)
          /\ hist' = Append(hist, Call("lock", issues[k], ok))
          /\ IF ok THEN pc' = "save4" /\ k' = k ELSE NextIssue
    /\ UNCHANGED <<world, open, topics, now, data, off, mode, issues, j, url, stats,
                   recv, mainStats, resumeVars, ret, runs>>

\* the checkpoint process writes at each position, and where it goes next
SaveStep(p) ==
    CASE p = "save1" -> [state |-> discourseDone, extra |-> url, next |-> "comment"]
      [] p = "save2" -> [state |-> commentDone, extra |-> <<>>, next |-> "close"]
      [] p = "save3" -> [state |-> closeDone, extra |-> <<>>, next |-> "lock"]
      [] p = "save4" -> [state |-> lockDone, extra |-> <<>>, next |-> "loop"]

\* process, lines 131-133, 155-157, 166-168, 177-180: saveState, then
\* the next step; after the lockDone checkpoint stats.Processed++
ProcessSave ==
    /\ mode = "migrate" /\ pc \in {"save1", "save2", "save3", "save4"}
    /\ LET s == SaveStep(pc) IN
       \E ok \in Outcomes :
          /\ Fault(ok)
          /\ hist' = Append(hist, Saved(issues[k], ok, s.state, s.extra))
          /\ IF ok
             THEN /\ data' = AppendWrite(data, saveStateLine(HTMLURL(issues[k]), s.state, s.extra))
                  /\ pc' = s.next
                  /\ IF pc = "save4"
                     THEN stats' = [stats EXCEPT !.Processed = @ + 1] /\ k' = k + 1
                     ELSE UNCHANGED <<stats, k>>
                  /\ UNCHANGED <<mode, ret>>
             ELSE /\ ExitOnError
                  /\ UNCHANGED <<data, stats, k>>
    /\ UNCHANGED <<world, open, topics, now, off, issues, j, url, recv, mainStats,
                   resumeVars, runs>>

\* main, lines 435-440: the final report dereferences stats
Report ==
    /\ mode \in {"migrate", "continue"} /\ pc = "report"
    /\ mode' = "idle" /\ pc' = "exit"
    /\ ret' = IF mainStats.isnil
              THEN [exit |-> "panic", mode |-> mode, stats |-> NilStats, err |-> TRUE]
              ELSE [exit |-> "ok", mode |-> mode, stats |-> mainStats, err |-> FALSE]
    /\ UNCHANGED <<world, open, topics, now, data, off, issues, j, k, url, stats, recv,
                   mainStats, resumeVars, runs, faults, hist>>

\* ---------------------------------------------- main.go: the resume pass
\* main, mode "continue", lines 322-331: the state file is read and split
\* into lines
StartContinue ==
    /\ mode = "idle" /\ runs < MaxRuns
    /\ runs' = runs + 1
    /\ mode' = "continue"
    /\ lines' = Split(data, NL)
    /\ li' = 1
    /\ issueStates' = << >>
    /\ visited' = {}
    /\ cur' = NoIssue
    /\ mainStats' = NilStats
    /\ pc' = "parse"
    /\ ret' = NoRet
    /\ k' = 0
    /\ UNCHANGED <<world, open, topics, now, data, off, issues, j, url, stats, recv,
                   faults, hist>>

\* lines 337-367: one line parsed into a RestoredIssue. An index out of
\* range panics; a failed Atoi is printed and leaves the value 0.
ParseLine(l) ==
    LET fields == Split(l, SP)
        u == fields[1]
        fragments == Split(u, SL)
        num == IF Len(fragments) >= 7 THEN Atoi(fragments[7]) ELSE Atoi(<<>>)
        done == IF Len(fields) >= 2 THEN Atoi(fields[2]) ELSE Atoi(<<>>)
        panic == \/ Len(fragments) < 7
                 \/ Len(fields) < 2
                 \/ (done.val = discourseDone /\ Len(fields) < 3)
    IN  IF panic
        THEN [panic |-> TRUE, reported |-> 0, iss |-> NoIssue]
        ELSE [panic |-> FALSE,
              reported |-> (IF num.err THEN 1 ELSE 0) + (IF done.err THEN 1 ELSE 0),
              iss |-> [URL |-> u, Owner |-> fragments[4], Repo |-> fragments[5],
                       IssNum |-> num.val, Done |-> done.val,
                       Extra |-> IF done.val = discourseDone THEN fields[3] ELSE <<>>,
                       iss |-> 0]]

\* faulty variant: the last record of a URL wins
PopulateLastWins(m, iss) ==
    IF iss.URL \in DOMAIN m
    THEN [m EXCEPT ![iss.URL].Done = iss.Done]
    ELSE m @@ (iss.URL :> iss)

\* lines 369-376: populate map: update or insert value
Populate(m, iss) ==
    IF iss.URL \in DOMAIN m
    THEN IF iss.Done > m[iss.URL].Done
         THEN [m EXCEPT ![iss.URL].Done = iss.Done]
         ELSE m
    ELSE m @@ (iss.URL :> iss)

\* the panic of an index out of range ends the program
Panic ==
    /\ mode' = "idle" /\ pc' = "exit"
    /\ ret' = [exit |-> "panic", mode |-> mode, stats |-> NilStats, err |-> TRUE]

\* lines 332-378: one turn of the loop over the lines
FoldLine ==
    /\ mode = "continue" /\ pc = "parse" /\ li <= Len(lines)
    /\ li' = li + 1
    /\ IF Len(lines[li]) = 0
       THEN /\ pc' = IF li = Len(lines) THEN "range" ELSE "parse"
            /\ UNCHANGED <<issueStates, cur, hist, mode, ret>>
       ELSE LET p == ParseLine(lines[li]) IN
            IF p.panic
            THEN Panic /\ UNCHANGED <<issueStates, cur, hist>>
            ELSE /\ issueStates' = Populate(issueStates, p.iss)
                 /\ cur' = p.iss
                 /\ hist' = IF p.reported > 0
                            THEN Append(hist, Event("report", 0, FALSE, li, lines[li], NoBody))
                            ELSE hist
                 /\ pc' = IF li = Len(lines) THEN "range" ELSE "parse"
                 /\ UNCHANGED <<mode, ret>>
    /\ UNCHANGED <<world, open, topics, now, data, off, issues, j, k, url, stats, recv,
                   mainStats, lines, visited, runs, faults>>

\* client.Issues.Get(ctx, i.Owner, i.Repo, i.IssNum): the issues it finds
GetIssue(i) ==
    {n \in IssueIds : i.Owner = <<"o">> /\ i.Repo = <<RepoOf(n)>> /\ i.IssNum = n}

Unvisited == DOMAIN issueStates \ visited

\* line 381: the range over issueStates is over
ResumeDone ==
    /\ mode = "continue" /\ pc = "range" /\ Unvisited = {}
    /\ pc' = "report"
    /\ UNCHANGED <<world, open, topics, now, data, off, mode, issues, j, k, url, stats,
                   recv, mainStats, resumeVars, ret, runs, faults, hist>>

\* lines 383-386: k == maxCount breaks the loop
ResumeLimit ==
    /\ mode = "continue" /\ pc = "range" /\ Unvisited # {}
    /\ k = maxCount
    /\ pc' = "report"
    /\ UNCHANGED <<world, open, topics, now, data, off, mode, issues, j, k, url, stats,
                   recv, mainStats, resumeVars, ret, runs, faults, hist>>

\* where the switch on i.Done (lines 407-428) enters
ResumeEntry(done) ==
    CASE done = discourseDone -> "rcomment"
      [] done = commentDone -> "rsave3"
      [] done = closeDone -> "rsave4"
      [] OTHER -> "range"

\* lines 381-407: the next restored issue, in the map's order, is fetched;
\* a failed fetch goes on to the next one
ResumeGet ==
    /\ mode = "continue" /\ pc = "range" /\ Unvisited # {}
    /\ k # maxCount
    /\ \E u \in Unvisited : \E ok \in Outcomes :
          LET i == issueStates[u]
              found == GetIssue(i)
          IN  /\ Fault(ok)
              /\ visited' = visited \cup {u}
              /\ IF ok /\ found # {}
                 THEN /\ cur' = [i EXCEPT !.iss = CHOOSE n \in found : TRUE]
                      /\ pc' = ResumeEntry(i.Done)
                      /\ k' = IF ResumeEntry(i.Done) = "range" THEN k + 1 ELSE k
                      /\ hist' = Append(hist, Event("resume", CHOOSE n \in found : TRUE,
                                                    TRUE, i.Done, i.Extra, NoBody))
                 ELSE UNCHANGED <<cur, pc, k, hist>>
    /\ UNCHANGED <<world, open, topics, now, data, off, mode, issues, j, url, stats,
                   recv, mainStats, lines, li, issueStates, ret, runs>>

\* lines 410-415: the comment of the discourseDone case; its error is dropped
ResumeComment ==
    /\ mode = "continue" /\ pc = "rcomment"
    /\ \E ok \in Outcomes :
          /\ Fault(ok)
          /\ hist' = Append(hist, Event("comment", cur.iss, ok, 0, <<>>,
                        IF isStale(cur.iss)
                        THEN Sprintf("staleTpl", <<Login(cur.iss)>>)
                        ELSE Sprintf("activeTpl", <<Login(cur.iss), cur.Extra>>)))
    /\ pc' = "rsave2"
    /\ UNCHANGED <<world, open, topics, now, data, off, mode, issues, j, k, url, stats,
                   recv, mainStats, resumeVars, ret, runs>>

\* the checkpoint the resume pass writes at each position; close(iss) and
\* lock(iss) are commented out (lines 419, 423)
ResumeStep(p) ==
    CASE p = "rsave2" -> [state |-> commentDone, next |-> "rsave3"]
      [] p = "rsave3" -> [state |-> closeDone, next |-> "rsave4"]
      [] p = "rsave4" -> [state |-> lockDone, next |-> "range"]

\* lines 416-430: saveState, its error dropped, then fallthrough; k++ at
\* the end of the switch
ResumeSave ==
    /\ mode = "continue" /\ pc \in {"rsave2", "rsave3", "rsave4"}
    /\ LET s == ResumeStep(pc) IN
       \E ok \in Outcomes :
          /\ Fault(ok)
          /\ hist' = Append(hist, Saved(cur.iss, ok, s.state, <<>>))
          /\ data' = IF ok
                     THEN AppendWrite(data, saveStateLine(HTMLURL(cur.iss), s.state, <<>>))
                     ELSE data
          /\ pc' = s.next
          /\ k' = IF pc = "rsave4" THEN k + 1 ELSE k
    /\ UNCHANGED <<world, open, topics, now, off, mode, issues, j, url, stats, recv,
                   mainStats, resumeVars, ret, runs>>

\* ------------------------------------- part_000: the run modes dry and live
\* GetOpenIssues (internal/github): the open issues of all repositories
RECURSIVE GetOpenIssues(_)
GetOpenIssues(r) ==
    IF r > Len(RepoNames) THEN <<>> ELSE ListByRepo(r) \o GetOpenIssues(r + 1)

\* process has a value receiver (func (run liveRun) process, func (run dryRun)
\* process): it counts in its own copy of run, and the caller's run.stats
\* is what it was before the call
AfterProcess(runStats, receiverStats) == runStats

\* f.WriteString on a file opened without O_APPEND: the bytes go to the
\* handle's offset and replace what is there
WriteAt(content, offset, line) ==
    SubSeq(content, 1, offset) \o line
        \o SubSeq(content, offset + Len(line) + 1, Len(content))

\* saveState(run.chkptf, checkpoint): the record of the checkpoint as one
\* line "<issueURL> <stepNumber> <extra>"; process never sets an extra
checkpointLine(n, done) == saveStateLine(HTMLURL(n), done, <<>>)

\* liveRun.finish: todo, does nothing
finish(unfinished) == TRUE

\* dryRun.run, lines 73-74
StartDry ==
    /\ mode = "idle" /\ runs < MaxRuns
    /\ runs' = runs + 1
    /\ mode' = "dry"
    /\ issues' = GetOpenIssues(1)
    /\ k' = 1 /\ pc' = "loop"
    /\ stats' = ZeroStats /\ recv' = ZeroStats
    /\ ret' = NoRet
    /\ UNCHANGED <<world, open, topics, now, data, off, j, url, mainStats, resumeVars,
                   faults, hist>>

\* faulty variant: the dry run posts the comment of a stale issue
DryProcessCommenting ==
    /\ mode = "dry" /\ pc = "loop" /\ k <= Len(issues)
    /\ LET n == issues[k] IN
       hist' = IF isPR[n] THEN Append(hist, Call("pr", n, TRUE))
               ELSE IF ~isStale(n) THEN Append(hist, Call("active", n, TRUE))
               ELSE hist \o <<Call("stale", n, TRUE),
                              Event("comment", n, TRUE, 0, <<>>,
                                    Sprintf("staleTpl", <<Login(n)>>))>>
    /\ k' = k + 1
    /\ UNCHANGED <<world, open, topics, now, data, off, mode, pc, issues, j, url,
                   stats, recv, mainStats, resumeVars, ret, runs, faults>>

\* dryRun.process, lines 52-67, called from run's loop (74-79)
DryProcess ==
    /\ mode = "dry" /\ pc = "loop" /\ k <= Len(issues)
    /\ LET n == issues[k]
           counted == IF isPR[n] THEN [stats EXCEPT !.PullRequest = @ + 1]
                      ELSE IF ~isStale(n)
                      THEN [stats EXCEPT !.Active = @ + 1, !.Processed = @ + 1]
                      ELSE [stats EXCEPT !.Stale = @ + 1, !.Processed = @ + 1]
       IN  /\ recv' = counted
           /\ stats' = AfterProcess(stats, counted)
           /\ hist' = Append(hist, Call(IF isPR[n] THEN "pr"
                                        ELSE IF ~isStale(n) THEN "active" ELSE "stale",
                                        n, TRUE))
    /\ k' = k + 1
    /\ UNCHANGED <<world, open, topics, now, data, off, mode, pc, issues, j, url,
                   mainStats, resumeVars, ret, runs, faults>>

\* dryRun.run as a function of the issue list: what run.stats is after
\* process has been called on each issue in turn
RECURSIVE DryRunStats(_, _)
DryRunStats(list, s) ==
    IF list = <<>> THEN s
    ELSE LET n == Head(list)
             counted == IF isPR[n] THEN [s EXCEPT !.PullRequest = @ + 1]
                        ELSE IF ~isStale(n)
                        THEN [s EXCEPT !.Active = @ + 1, !.Processed = @ + 1]
                        ELSE [s EXCEPT !.Stale = @ + 1, !.Processed = @ + 1]
         IN  DryRunStats(Tail(list), AfterProcess(s, counted))

\* dryRun.run, line 81: return run.stats, nil
DryReturn ==
    /\ mode = "dry" /\ pc = "loop" /\ k > Len(issues)
    /\ mode' = "idle" /\ pc' = "exit"
    /\ ret' = [exit |-> "ok", mode |-> mode, stats |-> stats, err |-> FALSE]
    /\ UNCHANGED <<world, open, topics, now, data, off, issues, j, k, url, stats, recv,
                   mainStats, resumeVars, runs, faults, hist>>

\* liveRun.run, lines 166-186: finish, then the checkpoint log is opened
\* with O_RDWR|O_CREATE, its offset at 0
StartLive ==
    /\ mode = "idle" /\ runs < MaxRuns
    /\ runs' = runs + 1
    /\ mode' = "live"
    /\ issues' = GetOpenIssues(1)
    /\ \E unfinished \in IssueIds \cup {0} : finish(unfinished)
    /\ off' = 0
    /\ k' = 1 /\ pc' = "loop"
    /\ stats' = ZeroStats /\ recv' = ZeroStats
    /\ ret' = NoRet
    /\ UNCHANGED <<world, open, topics, now, data, j, url, mainStats, resumeVars,
                   faults, hist>>

\* liveRun.run, lines 189-191 and 195: run returns run.stats, with the
\* error of process if there is one
LiveRunReturns(e) ==
    /\ mode' = "idle" /\ pc' = "exit"
    /\ ret' = [exit |-> IF e THEN "error" ELSE "ok", mode |-> mode, stats |-> stats',
               err |-> e]

\* liveRun.run, line 195
LiveReturn ==
    /\ mode = "live" /\ pc = "loop" /\ k > Len(issues)
    /\ stats' = stats
    /\ LiveRunReturns(FALSE)
    /\ UNCHANGED <<world, open, topics, now, data, off, issues, j, k, url, recv,
                   mainStats, resumeVars, runs, faults, hist>>

\* liveRun.process, lines 85-89
LiveSkipPR ==
    /\ mode = "live" /\ pc = "loop" /\ k <= Len(issues)
    /\ isPR[issues[k]]
    /\ recv' = [stats EXCEPT !.PullRequest = @ + 1]
    /\ stats' = AfterProcess(stats, recv')
    /\ hist' = Append(hist, Call("pr", issues[k], TRUE))
    /\ k' = k + 1
    /\ UNCHANGED <<world, open, topics, now, data, off, mode, pc, issues, j, url,
                   mainStats, resumeVars, ret, runs, faults>>

\* faulty variant: the live run counts the issue updated exactly three
\* months ago as stale
LiveClassifyAtBoundary ==
    /\ mode = "live" /\ pc = "loop" /\ k <= Len(issues)
    /\ ~isPR[issues[k]]
    /\ IF ~isStaleAtBoundary(issues[k])
       THEN /\ recv' = [stats EXCEPT !.Active = @ + 1]
            /\ hist' = Append(hist, Call("active", issues[k], TRUE))
            /\ pc' = "discourse"
            /\ UNCHANGED commentTpl
       ELSE /\ recv' = [stats EXCEPT !.Stale = @ + 1]
            /\ hist' = Append(hist, Call("stale", issues[k], TRUE))
            /\ commentTpl' = "staleTpl"
            /\ pc' = "comment"
    /\ url' = <<>>
    /\ UNCHANGED <<isPR, updatedAt, open, topics, now, data, off, mode, issues, j, k,
                   stats, mainStats, resumeVars, ret, runs, faults>>

\* liveRun.process, lines 91-102 and 121-126
LiveClassify ==
    /\ mode = "live" /\ pc = "loop" /\ k <= Len(issues)
    /\ ~isPR[issues[k]]
    /\ IF ~isStale(issues[k])
       THEN /\ recv' = [stats EXCEPT !.Active = @ + 1]
            /\ hist' = Append(hist, Call("active", issues[k], TRUE))
            /\ pc' = "discourse"
            /\ UNCHANGED commentTpl
       ELSE /\ recv' = [stats EXCEPT !.Stale = @ + 1]
            /\ hist' = Append(hist, Call("stale", issues[k], TRUE))
            /\ commentTpl' = "staleTpl"
            /\ pc' = "comment"
    /\ url' = <<>>
    /\ UNCHANGED <<isPR, updatedAt, open, topics, now, data, off, mode, issues, j, k,
                   stats, mainStats, resumeVars, ret, runs, faults>>

\* a step of process failed: process returns the error and run returns it
LiveFail ==
    /\ stats' = AfterProcess(stats, recv)
    /\ LiveRunReturns(TRUE)

\* liveRun.process, lines 104-112, 119-120
LiveDiscourse ==
    /\ mode = "live" /\ pc = "discourse"
    /\ \E ok \in Outcomes :
          /\ Fault(ok)
          /\ hist' = Append(hist, Event("discourse", issues[k], ok, 0,
                                        IF ok THEN TopicURL(topics + 1) ELSE <<>>, NoBody))
          /\ IF ok
             THEN /\ topics' = topics + 1
                  /\ url' = TopicURL(topics + 1)
                  /\ commentTpl' = "activeTpl"
                  /\ pc' = "save1"
                  /\ UNCHANGED <<mode, ret, stats>>
             ELSE /\ LiveFail
                  /\ UNCHANGED <<topics, url, commentTpl>>
    /\ UNCHANGED <<isPR, updatedAt, open, now, data, off, issues, j, k, recv,
                   mainStats, resumeVars, runs>>

\* liveRun.process, lines 98 and 120: the parameters of the comment template
commentTplParams(n) ==
    IF commentTpl = "activeTpl" THEN <<Login(n), url>> ELSE <<Login(n)>>

\* liveRun.process, lines 128-130
LiveComment ==
    /\ mode = "live" /\ pc = "comment"
    /\ \E ok \in Outcomes :
          /\ Fault(ok)
          /\ hist' = Append(hist, Event("comment", issues[k], ok, 0, <<>>,
                                        Sprintf(commentTpl, commentTplParams(issues[k]))))
          /\ IF ok THEN pc' = "save2" /\ UNCHANGED <<mode, ret, stats>> ELSE LiveFail
    /\ UNCHANGED <<world, open, topics, now, data, off, issues, j, k, url, recv,
                   mainStats, resumeVars, runs>>

\* liveRun.process, lines 137-140
LiveClose ==
    /\ mode = "live" /\ pc = "close"
    /\ \E ok \in Outcomes :
          /\ Fault(ok)
          /\ hist' = Append(hist, Call("close", issues[k], ok))
          /\ open' = IF ok THEN open \ {issues[k]} ELSE open
          /\ IF ok THEN pc' = "save3" /\ UNCHANGED <<mode, ret, stats>> ELSE LiveFail
    /\ UNCHANGED <<world, topics, now, data, off, issues, j, k, url, recv,
                   mainStats, resumeVars, runs>>

\* liveRun.process, lines 147-150
LiveLock ==
    /\ mode = "live" /\ pc = "lock"
    /\ \E ok \in Outcomes :
          /\ Fault(ok)
          /\ hist' = Append(hist, Call("lock", issues[k], ok))
          /\ IF ok THEN pc' = "save4" /\ UNCHANGED <<mode, ret, stats>> ELSE LiveFail
    /\ UNCHANGED <<world, open, topics, now, data, off, issues, j, k, url, recv,
                   mainStats, resumeVars, runs>>

\* the checkpoint liveRun.process writes at each position (the iota
\* constants of part_000), and where it goes next
LiveStep(p) ==
    CASE p = "save1" -> [state |-> iotaDiscourseDone, next |-> "comment"]
      [] p = "save2" -> [state |-> iotaCommentDone, next |-> "close"]
      [] p = "save3" -> [state |-> iotaCloseDone, next |-> "lock"]
      [] p = "save4" -> [state |-> iotaLockDone, next |-> "loop"]

\* liveRun.process, lines 114-117, 132-135, 142-145, 152-158
LiveSave ==
    /\ mode = "live" /\ pc \in {"save1", "save2", "save3", "save4"}
    /\ LET s == LiveStep(pc)
           line == checkpointLine(issues[k], s.state)
       IN
       \E ok \in Outcomes :
          /\ Fault(ok)
          /\ hist' = Append(hist, Saved(issues[k], ok, s.state, <<>>))
          /\ IF ok
             THEN /\ data' = WriteAt(data, off, line)
                  /\ off' = off + Len(line)
                  /\ pc' = s.next
                  /\ IF pc = "save4"
                     THEN /\ recv' = [recv EXCEPT !.Processed = @ + 1]
                          /\ stats' = AfterProcess(stats, recv')
                          /\ k' = k + 1
                     ELSE UNCHANGED <<recv, stats, k>>
                  /\ UNCHANGED <<mode, ret>>
             ELSE /\ LiveFail
                  /\ UNCHANGED <<data, off, recv, k>>
    /\ UNCHANGED <<world, open, topics, now, issues, j, url, mainStats, resumeVars,
                   runs>>

\* -------------------------------------------------------- specifications
TypeIssues ==
    /\ isPR \in [IssueIds -> BOOLEAN]
    /\ updatedAt \in [IssueIds -> {1, 2}]

InitRun ==
    /\ open = IssueIds
    /\ topics = 0
    /\ now = 5
    /\ off = 0
    /\ mode = "idle" /\ pc = "exit"
    /\ issues = <<>>
    /\ j = 0 /\ k = 0
    /\ url = <<>>
    /\ commentTpl = ""
    /\ stats = ZeroStats /\ recv = ZeroStats /\ mainStats = NilStats
    /\ lines = <<>> /\ li = 0
    /\ issueStates = << >>
    /\ visited = {}
    /\ cur = NoIssue
    /\ ret = NoRet
    /\ runs = 0 /\ faults = 0
    /\ hist = <<>>

\* the state before the first run: the issues as GitHub lists them, no
\* checkpoint file yet
Init ==
    /\ TypeIssues
    /\ data = <<>>
    /\ InitRun

NextFresh ==
    \/ StartFresh
    \/ ProcessReturn
    \/ ProcessSkipPR
    \/ ProcessLimit
    \/ ProcessClassify
    \/ ProcessDiscourse
    \/ ProcessComment
    \/ ProcessClose
    \/ ProcessLock
    \/ ProcessSave
    \/ Report

NextResume ==
    \/ StartContinue
    \/ FoldLine
    \/ ResumeDone
    \/ ResumeLimit
    \/ ResumeGet
    \/ ResumeComment
    \/ ResumeSave

NextRun ==
    \/ StartDry
    \/ DryProcess
    \/ DryReturn
    \/ StartLive
    \/ LiveReturn
    \/ LiveSkipPR
    \/ LiveClassify
    \/ LiveDiscourse
    \/ LiveComment
    \/ LiveClose
    \/ LiveLock
    \/ LiveSave

\* main.go: fresh runs and resume passes over one state file
Next == Tick \/ NextFresh \/ NextResume

Spec == Init /\ [][Next]_vars

\* the runs that work from a fresh issue listing: dryRun and liveRun of
\* part_000 and the fresh run of main.go
NextListed == NextRun \/ NextFresh

SpecRun == Init /\ [][NextListed]_vars

\* ------------------------------------------- the parser on arbitrary files
\* lines a state file may hold: records as saveState writes them, in any
\* order, and lines that are not records
FoldLines ==
    { saveStateLine(HTMLURL(1), discourseDone, TopicURL(1)),
      saveStateLine(HTMLURL(1), commentDone, <<>>),
      saveStateLine(HTMLURL(1), closeDone, <<>>),
      saveStateLine(HTMLURL(3), lockDone, <<>>),
      <<NL>>,
      HTMLURL(2) \o <<SP, "x", SP, NL>>,
      <<"h", ":", SL, SL, "g", SL, "o", SL, "a", SL, "i", SL, "x", SP, "2", SP, NL>>,
      HTMLURL(2) \o <<NL>>,
      HTMLURL(2) \o <<SP, "3", NL>> }

RECURSIVE FoldFiles(_)
FoldFiles(n) ==
    IF n = 0 THEN {<<>>}
    ELSE FoldFiles(n - 1) \cup
         {f \o l : f \in {g \in FoldFiles(n - 1) : TRUE}, l \in FoldLines}

InitFold ==
    /\ isPR = [n \in IssueIds |-> FALSE]
    /\ updatedAt = [n \in IssueIds |-> 2]
    /\ data \in FoldFiles(MaxLines)
    /\ InitRun

\* the extra saveState is given: the topic URL with discourseDone, the
\* empty string with every other step
SaveInputs ==
    {[state |-> discourseDone, extra |-> TopicURL(1)],
     [state |-> discourseDone, extra |-> TopicURL(12)],
     [state |-> commentDone, extra |-> <<>>],
     [state |-> closeDone, extra |-> <<>>],
     [state |-> lockDone, extra |-> <<>>]}

\* saveState (lines 70-85) on a record whose fields are drawn
SaveRecord ==
    /\ mode = "idle" /\ runs = 0
    /\ hist = <<>>
    /\ \E n \in {1, 2} : \E in \in SaveInputs :
          /\ data' = AppendWrite(data, saveStateLine(HTMLURL(n), in.state, in.extra))
          /\ hist' = Append(hist, Saved(n, TRUE, in.state, in.extra))
    /\ UNCHANGED <<world, open, topics, now, off, mode, pc, issues, j, k, url, stats,
                   recv, mainStats, resumeVars, ret, runs, faults>>

NextFold == SaveRecord \/ StartContinue \/ FoldLine

SpecFold == InitFold /\ [][NextFold]_vars

\* the resume pass of main.go, through to its report, over the state files
\* earlier runs may have left
NextPass == NextResume \/ Report

SpecPass == InitFold /\ [][NextPass]_vars

\* ------------------------------------------------------------ claims
Ops == <<"discourse", "comment", "close", "lock">>

OpSet == {"discourse", "comment", "close", "lock"}

Events == 1..Len(hist)

\* the external call whose completion a checkpoint records: steps are
\* numbered from 1 in main.go and from 0 in part_000
OpOfStep(e) == IF e.mode = "live" THEN Ops[e.step + 1] ELSE Ops[e.step]

IsCall(e) == e.op \in OpSet

IsSave(e) == e.op = "save"

\* the run that ended last returned to its caller
Returned == mode = "idle" /\ ret.exit \in {"ok", "error"}

CountOf(op) == Cardinality({n \in Events : hist[n].run = runs /\ hist[n].op = op})

\* C1 as claimed: every checkpoint record written follows a successful
\* external call of its step for its issue.
C1_CheckpointAfterCall ==
    \A n \in Events :
        (IsSave(hist[n]) /\ hist[n].ok /\ hist[n].step \in 1..4) =>
            \E m \in 1..(n - 1) :
                /\ hist[m].op = OpOfStep(hist[n])
                /\ hist[m].iss = hist[n].iss
                /\ hist[m].ok

\* C2 as claimed: once the checkpoint of a step of an issue is in the log,
\* the external call of that step is not issued again for that issue, in
\* whatever run.
C2_NoCallAfterCheckpoint ==
    \A n \in Events :
        IsCall(hist[n]) =>
            ~ \E m \in 1..(n - 1) :
                /\ IsSave(hist[m]) /\ hist[m].ok
                /\ hist[m].iss = hist[n].iss
                /\ OpOfStep(hist[m]) = hist[n].op

\* C3 as claimed: after a failed external call of a live run nothing more
\* is called or checkpointed for that issue in that run, and the run
\* returns an error to its caller.
C3_FailureStopsIssue ==
    \A n \in Events :
        (IsCall(hist[n]) /\ ~hist[n].ok /\ hist[n].mode \in {"live", "migrate"}) =>
            /\ \A m \in (n + 1)..Len(hist) :
                  (hist[m].run = hist[n].run /\ hist[m].iss = hist[n].iss) =>
                      ~(IsCall(hist[m]) \/ IsSave(hist[m]))
            /\ (hist[n].run = runs /\ mode = "idle") => ret.err

\* the stats a run has accumulated when it returns: what it classified
\* and what it carried through to the lockDone checkpoint
Accumulated ==
    [isnil |-> FALSE,
     Processed |-> Cardinality({n \in Events : /\ hist[n].run = runs
                                               /\ IsSave(hist[n]) /\ hist[n].ok
                                               /\ OpOfStep(hist[n]) = "lock"}),
     Stale |-> CountOf("stale"),
     Active |-> CountOf("active"),
     PullRequest |-> CountOf("pr")]

\* C4 as claimed: a live run whose processing of an issue failed stops at
\* that issue and returns the error with the stats accumulated so far.
C4_StopsWithStatsSoFar ==
    (Returned /\ ret.mode = "live" /\ ret.err) =>
        /\ \A n \in Events : \A q \in (k + 1)..Len(issues) :
              hist[n].run = runs => hist[n].iss # issues[q]
        /\ ret.stats = Accumulated

\* C5 as claimed: a pull request gets no external call and no checkpoint,
\* and the run's stats count every pull request skipped.
C5_PullRequestCounted ==
    /\ \A n \in Events :
          (IsCall(hist[n]) \/ IsSave(hist[n])) => ~isPR[hist[n].iss]
    /\ (Returned /\ ret.mode \in {"live", "dry"}) =>
          ret.stats.PullRequest = CountOf("pr")

\* the issue of an event was updated within three months of the event
ActiveAt(e) == updatedAt[e.iss] >= e.at - ThreeMonths

LiveModes == {"live", "migrate"}

\* C6: in a live run (liveRun, and the fresh run of main.go) an issue not
\* older than three months is classified active, its first call is the
\* Discourse call and its comment is the active template, posted after a
\* successful Discourse call of the same run; an older issue is classified
\* stale, its first call is the comment with the stale template, and it
\* gets no Discourse call. Every issue the run has been through, pull
\* requests aside, has been classified.
C6_BranchByStaleness ==
    /\ \A n \in Events :
          LET e == hist[n] IN
          e.mode \in LiveModes =>
              /\ e.op = "active" => ActiveAt(e)
              /\ e.op = "stale" => ~ActiveAt(e)
              /\ e.op = "discourse" => ActiveAt(e)
              /\ e.op = "comment" =>
                    /\ e.body.tpl = IF ActiveAt(e) THEN "activeTpl" ELSE "staleTpl"
                    /\ ActiveAt(e) =>
                          \E m \in 1..(n - 1) :
                              /\ hist[m].op = "discourse" /\ hist[m].ok
                              /\ hist[m].iss = e.iss /\ hist[m].run = e.run
              /\ e.op \in {"active", "stale"} =>
                    IF n < Len(hist) /\ hist[n + 1].run = e.run
                    THEN /\ hist[n + 1].iss = e.iss
                         /\ hist[n + 1].op = IF e.op = "active" THEN "discourse" ELSE "comment"
                    ELSE e.run = runs /\ mode = e.mode
                         /\ pc = IF e.op = "active" THEN "discourse"
                                 ELSE IF mode = "live" THEN "comment" ELSE "commentStale"
    /\ mode \in LiveModes =>
          \A q \in 1..(k - 1) :
              (q <= Len(issues) /\ ~isPR[issues[q]]) =>
                  \E n \in Events : /\ hist[n].run = runs
                                    /\ hist[n].iss = issues[q]
                                    /\ hist[n].op \in {"active", "stale"}

\* C6 witness: a live run has posted the active comment of an issue
\* updated exactly three months before, after its Discourse call, and the
\* stale comment of an older issue
C6_Witness ==
    \E a \in Events : \E b \in Events :
        /\ hist[a].mode = "live" /\ hist[b].mode = "live"
        /\ hist[a].op = "comment" /\ hist[a].ok
        /\ updatedAt[hist[a].iss] = hist[a].at - ThreeMonths
        /\ hist[a].body.tpl = "activeTpl"
        /\ hist[b].op = "comment" /\ hist[b].ok
        /\ hist[b].body.tpl = "staleTpl"
        /\ hist[b].run = hist[a].run

\* the operations of the external calls made for the issue of event n
\* after it, in the same run
RECURSIVE CallsAfter(_, _)
CallsAfter(n, m) ==
    IF m > Len(hist) THEN <<>>
    ELSE (IF /\ IsCall(hist[m]) /\ hist[m].run = hist[n].run
             /\ hist[m].iss = hist[n].iss
          THEN <<hist[m].op>> ELSE <<>>) \o CallsAfter(n, m + 1)

\* the resume pass is through with the issue it entered at event n
Resumed(n) ==
    \/ hist[n].step = lockDone
    \/ \E m \in (n + 1)..Len(hist) :
          /\ IsSave(hist[m]) /\ hist[m].step = lockDone
          /\ hist[m].run = hist[n].run /\ hist[m].iss = hist[n].iss

\* C7 as claimed: an issue resumed at a step gets exactly the external
\* calls of the later steps, in order (comment, close, lock after
\* DiscourseDone; close, lock after CommentDone; none after LockDone).
C7_ResumeCallsLaterSteps ==
    \A n \in Events :
        (hist[n].op = "resume" /\ hist[n].step \in 1..4 /\ Resumed(n)) =>
            CallsAfter(n, n + 1) = SubSeq(Ops, hist[n].step + 1, 4)

SetMax(S) == CHOOSE x \in S : \A y \in S : y <= x

\* the lines the fold has been through, empty ones left out
Consumed == {n \in 1..(li - 1) : n <= Len(lines) /\ lines[n] # <<>>}

LineURL(l) == Split(l, SP)[1]

LineStep(l) == ParseLine(l).iss.Done

Folding == mode = "continue" /\ pc \in {"parse", "range"}

\* C8: at every point of the fold, the step stored for an issue URL is the
\* maximum step among the records of that URL read so far, whatever their
\* order and however often they are repeated (so a later record with a
\* lower step never lowers it), and the map holds exactly the URLs read.
C8_FoldYieldsMaximum ==
    Folding =>
        /\ DOMAIN issueStates = {LineURL(lines[n]) : n \in Consumed}
        /\ \A u \in DOMAIN issueStates :
              issueStates[u].Done =
                  SetMax({LineStep(lines[n]) : n \in {m \in Consumed : LineURL(lines[m]) = u}})

\* C8 witness: the fold is over a file in which a record of a URL is
\* followed by a record of the same URL with a lower step
C8_Witness ==
    /\ mode = "continue" /\ pc = "range"
    /\ \E a \in Consumed : \E b \in Consumed :
          /\ a < b
          /\ LineURL(lines[a]) = LineURL(lines[b])
          /\ LineStep(lines[a]) > LineStep(lines[b])
          /\ issueStates[LineURL(lines[a])].Done = LineStep(lines[a])

\* the fold has just been through the record saveState appended
ReadBack == hist # <<>> /\ hist[1].op = "save" /\ li = Len(lines)

\* C9: the record saveState wrote is parsed back, without a panic, into
\* the same (url, step, extra).
C9_RoundTrip ==
    ReadBack =>
        /\ ret.exit # "panic"
        /\ mode = "continue" =>
              /\ cur.URL = HTMLURL(hist[1].iss)
              /\ cur.Done = hist[1].step
              /\ cur.Extra = hist[1].text

\* C9 witness: a discourseDone record with its topic URL has been written
\* and read back
C9_Witness ==
    /\ ReadBack /\ mode = "continue"
    /\ hist[1].step = discourseDone
    /\ cur.Extra = TopicURL(12)
    /\ Len(lines) > 2

\* a line that is no record: not three fields, a URL that is not an issue
\* URL, a step or an issue number that is no number
Malformed(l) ==
    LET fields == Split(l, SP)
        fragments == Split(fields[1], SL)
    IN  \/ Len(fields) # 3
        \/ Len(fragments) # 7
        \/ Atoi(fields[2]).err
        \/ Atoi(fragments[7]).err

WellFormed == {n \in Consumed : ~Malformed(lines[n])}

\* C10 as claimed: a malformed line never ends the pass, adds no restored
\* issue and changes no restored step: the map is the fold of the
\* well-formed lines alone.
C10_MalformedSkipped ==
    /\ ret.exit # "panic"
    /\ Folding =>
          /\ DOMAIN issueStates = {LineURL(lines[n]) : n \in WellFormed}
          /\ \A u \in DOMAIN issueStates :
                issueStates[u].Done =
                    SetMax({LineStep(lines[n]) :
                               n \in {m \in WellFormed : LineURL(lines[m]) = u}})

IsPrefix(a, b) == Len(a) <= Len(b) /\ SubSeq(b, 1, Len(a)) = a

\* C11 as claimed: no step of any run takes away or changes what the
\* checkpoint log held before it: the content before the step is a prefix
\* of the content after it.
C11_AppendOnly == [][IsPrefix(data, data')]_vars

\* C12 as claimed: a checkpoint write that fails ends its run at once and
\* with an error: the run records no further call, checkpoint or
\* classification, and it has returned an error to its caller.
C12_SaveFailureFatal ==
    \A n \in Events :
        (IsSave(hist[n]) /\ ~hist[n].ok) =>
            /\ \A m \in (n + 1)..Len(hist) : hist[m].run # hist[n].run
            /\ hist[n].run = runs => (mode = "idle" /\ ret.err)

\* the number of the step an external call completes, in the numbering of
\* the program that made it
StepOfCall(e) ==
    LET idx == CHOOSE q \in 1..4 : Ops[q] = e.op
    IN  IF e.mode = "live" THEN idx - 1 ELSE idx

\* the successful external calls made for issue i in run r before event n
OkCallsBefore(i, r, n) ==
    {m \in 1..(n - 1) : /\ IsCall(hist[m]) /\ hist[m].ok
                        /\ hist[m].iss = i /\ hist[m].run = r}

\* the records of issue i the log holds, as the resume pass splits them
LogLines(i) ==
    LET ls == Split(data, NL)
    IN  {q \in 1..Len(ls) : ls[q] # <<>> /\ LineURL(ls[q]) = HTMLURL(i)}

\* the step the fold of the log yields for issue i; -1 when the log has no
\* record of it
LogStep(i) ==
    IF LogLines(i) = {} THEN 0 - 1
    ELSE SetMax({LineStep(Split(data, NL)[q]) : q \in LogLines(i)})

\* each call of a live run for an issue that follows a successful call for
\* it is made after the checkpoint of that earlier step was written
CallAfterCheckpoint ==
    \A n \in Events :
        (IsCall(hist[n]) /\ hist[n].mode \in LiveModes) =>
            LET before == OkCallsBefore(hist[n].iss, hist[n].run, n) IN
            before # {} =>
                \E m \in (SetMax(before) + 1)..(n - 1) :
                    /\ IsSave(hist[m]) /\ hist[m].ok
                    /\ hist[m].iss = hist[n].iss
                    /\ hist[m].step = StepOfCall(hist[SetMax(before)])

\* for every issue, the log folds to a step no lower than the step
\* completed before the last call of a live run that succeeded for it
LogNotBehind ==
    \A i \in IssueIds :
        LET okCalls == {m \in Events : /\ IsCall(hist[m]) /\ hist[m].ok
                                       /\ hist[m].iss = i
                                       /\ hist[m].mode \in LiveModes}
        IN  okCalls # {} =>
                LET last == SetMax(okCalls)
                    before == OkCallsBefore(i, hist[last].run, last)
                IN  before # {} => LogStep(i) >= StepOfCall(hist[SetMax(before)])

\* C13 as claimed: in a live run the call of a step is made only after the
\* checkpoint of the step completed before it was written, and so,
\* wherever the process stops, the step the log folds to for an issue is
\* at most one step behind the last call that succeeded for it.
C13_CheckpointBeforeNextCall == CallAfterCheckpoint /\ LogNotBehind

\* the events a step adds to the history
Added == {hist'[n] : n \in (Len(hist) + 1)..Len(hist')}

\* C14: no step of a dry run creates a Discourse topic, posts a comment,
\* closes or locks an issue or writes to the checkpoint log: the topics,
\* the open issues and the log stay as they are, and no call and no
\* checkpoint is made.
C14_DryRunNoSideEffect ==
    [][(mode = "dry" \/ mode' = "dry") =>
          /\ data' = data /\ topics' = topics /\ open' = open
          /\ \A e \in Added : ~(IsCall(e) \/ IsSave(e))]_vars

\* C14 witness: a dry run has returned after classifying a stale issue, an
\* active issue and a pull request
C14_Witness ==
    /\ Returned /\ ret.mode = "dry"
    /\ \A o \in {"stale", "active", "pr"} :
          \E n \in Events : hist[n].run = runs /\ hist[n].mode = "dry" /\ hist[n].op = o

Classes == {"pr", "active", "stale"}

\* the stale, active and pull-request counts of a RunStats
ClassCounts(s) == <<s.Stale, s.Active, s.PullRequest>>

\* C15: a dry run and a live run that classify the same issue at the same
\* clock give it the same class; a run of either mode that returns without
\* an error has classified every issue of its list; and the stale, active
\* and pull-request counts a run of either mode returns are those a dry
\* run over the same list returns.
C15_DryLiveAgree ==
    /\ \A a \in Events : \A b \in Events :
          (/\ hist[a].mode = "dry" /\ hist[b].mode = "live"
           /\ hist[a].op \in Classes /\ hist[b].op \in Classes
           /\ hist[a].iss = hist[b].iss /\ hist[a].at = hist[b].at) =>
              hist[a].op = hist[b].op
    /\ (Returned /\ ret.mode \in {"dry", "live"}) =>
          /\ ~ret.err =>
                \A q \in 1..Len(issues) :
                    \E n \in Events : /\ hist[n].run = runs
                                      /\ hist[n].iss = issues[q]
                                      /\ hist[n].op \in Classes
          /\ ClassCounts(ret.stats) = ClassCounts(DryRunStats(issues, ZeroStats))

\* C15 witness: a live run has returned without error after a dry run at
\* the same clock; both classified an issue updated exactly three months
\* ago, an older issue and a pull request
C15_Witness ==
    /\ Returned /\ ret.mode = "live" /\ ~ret.err
    /\ \A o \in Classes :
          \E a \in Events : \E b \in Events :
              /\ hist[a].mode = "dry" /\ hist[b].mode = "live"
              /\ hist[a].op = o /\ hist[b].op = o
              /\ hist[a].iss = hist[b].iss /\ hist[a].at = hist[b].at

\* what the limit keeps from an issue: its classification as active or
\* stale, its external calls and its checkpoints
Handling == {"active", "stale", "save"} \cup OpSet

\* the issues of the repository of event m, other than its own, that the
\* fresh run of m carried through to the lockDone checkpoint before m
ProcessedBefore(m) ==
    {hist[n].iss : n \in {q \in 1..(m - 1) :
        /\ hist[q].run = hist[m].run
        /\ IsSave(hist[q]) /\ hist[q].ok /\ hist[q].step = lockDone
        /\ RepoOf(hist[q].iss) = RepoOf(hist[m].iss)
        /\ hist[q].iss # hist[m].iss}}

\* the issues, other than its own, the resume pass of m took up before m
ResumedBefore(m) ==
    {hist[n].iss : n \in {q \in 1..(m - 1) :
        /\ hist[q].run = hist[m].run
        /\ hist[q].op = "resume"
        /\ hist[q].iss # hist[m].iss}}

\* C16: in a fresh run of main.go, once maxCount issues of a repository
\* have been processed no further issue of its list is classified as
\* active or stale, called for or checkpointed, and the processed count
\* stays within maxCount; in the resume pass no further restored issue is
\* taken up once the counter k has reached maxCount, and k stays within
\* maxCount.
C16_LimitHalts ==
    /\ mode = "migrate" => stats.Processed <= maxCount
    /\ ~mainStats.isnil => mainStats.Processed <= maxCount
    /\ mode = "continue" => k <= maxCount
    /\ \A m \in Events :
          /\ (hist[m].mode = "migrate" /\ hist[m].op \in Handling) =>
                Cardinality(ProcessedBefore(m)) < maxCount
          /\ (hist[m].mode = "continue" /\ hist[m].op \in Handling \cup {"resume"}) =>
                Cardinality(ResumedBefore(m)) < maxCount

\* C16 witness: a fresh run has processed issue 1 through to lockDone and
\* gone on to the next repository while issue 2 of the same list, open and
\* no pull request, has not been touched
C16_Witness ==
    /\ mode = "migrate" /\ j = 2
    /\ ~isPR[2] /\ 2 \in open
    /\ \E n \in Events : /\ hist[n].run = runs /\ hist[n].iss = 1
                         /\ IsSave(hist[n]) /\ hist[n].ok /\ hist[n].step = lockDone
    /\ \A n \in Events : hist[n].run = runs => hist[n].iss # 2

\* C17 as claimed: after a successful Discourse call of a live run that
\* returned topic URL U for an issue, the checkpoint written next is
\* (issue, step 1, extra U), and the comment then posted for the issue is
\* the active template filled with the issue's author and U.
C17_ActiveRecordAndComment ==
    \A d \in Events :
        (hist[d].op = "discourse" /\ hist[d].ok /\ hist[d].mode \in LiveModes) =>
            /\ (d < Len(hist) /\ hist[d + 1].run = hist[d].run) =>
                  /\ IsSave(hist[d + 1]) /\ hist[d + 1].iss = hist[d].iss
                  /\ hist[d + 1].ok =>
                        /\ hist[d + 1].step = 1
                        /\ hist[d + 1].text = hist[d].text
            /\ \A m \in (d + 1)..Len(hist) :
                  (/\ hist[m].op = "comment" /\ hist[m].run = hist[d].run
                   /\ hist[m].iss = hist[d].iss) =>
                      hist[m].body = Sprintf("activeTpl", <<Login(hist[d].iss), hist[d].text>>)

\* the steps, by the call they complete, of the checkpoints written for
\* the issue of event n after it, in the same run
RECURSIVE SavedAfter(_, _)
SavedAfter(n, m) ==
    IF m > Len(hist) THEN <<>>
    ELSE (IF /\ IsSave(hist[m]) /\ hist[m].ok /\ hist[m].run = hist[n].run
             /\ hist[m].iss = hist[n].iss
          THEN <<OpOfStep(hist[m])>> ELSE <<>>) \o SavedAfter(n, m + 1)

\* nothing failed in run r so far
AllOk(r) == \A n \in Events : hist[n].run = r => hist[n].ok

\* the steps of the branch an issue was classified into
StepsOf(op) == IF op = "active" THEN Ops ELSE SubSeq(Ops, 2, 4)

\* C18 as claimed: in a live run in which nothing fails, the checkpoints of
\* an issue are written one per completed step and in step order; once
\* the LockDone checkpoint is written they are CommentDone, CloseDone,
\* LockDone for a stale issue and DiscourseDone, CommentDone, CloseDone,
\* LockDone for an active one; and the comment of a stale issue is the
\* stale template filled with the author's handle only.
C18_RecordsPerStep ==
    \A n \in Events :
        LET e == hist[n]
            saved == SavedAfter(n, n + 1)
        IN  (e.mode \in LiveModes /\ e.op \in {"active", "stale"} /\ AllOk(e.run)) =>
                /\ IsPrefix(saved, StepsOf(e.op))
                /\ (saved # <<>> /\ saved[Len(saved)] = "lock") => saved = StepsOf(e.op)
                /\ e.op = "stale" =>
                      \A m \in (n + 1)..Len(hist) :
                          (/\ hist[m].op = "comment" /\ hist[m].run = e.run
                           /\ hist[m].iss = e.iss) =>
                              hist[m].body = Sprintf("staleTpl", <<Login(e.iss)>>)

\* a checkpoint write of the run that ended last failed: the run halted
\* early
HaltedEarly == \E n \in Events : hist[n].run = runs /\ IsSave(hist[n]) /\ ~hist[n].ok

\* C19 as claimed: a run of main.go that has ended did not fail in its
\* report; if it finished, it reported the counts of everything it
\* handled, over all repositories; if it halted early, it ended with a
\* non-zero outcome.
C19_ReportsAggregate ==
    (mode = "idle" /\ ret.mode \in {"migrate", "continue"}) =>
        /\ ret.exit # "panic"
        /\ ret.exit = "ok" => ret.stats = Accumulated
        /\ HaltedEarly => ret.exit = "error"

\* C20 as claimed: the stats a dry or live run returns count what the run
\* did: the pull requests it skipped, the issues it classified active and
\* stale and, in a live run, the issues whose LockDone checkpoint it wrote.
C20_StatsReflectRun ==
    (Returned /\ ret.mode \in {"dry", "live"}) =>
        /\ ret.stats.PullRequest = CountOf("pr")
        /\ ret.stats.Active = CountOf("active")
        /\ ret.stats.Stale = CountOf("stale")
        /\ ret.mode = "live" => ret.stats.Processed = Accumulated.Processed

\* C21 as claimed: the comment the resume pass posts for an issue restored
\* at DiscourseDone is the active template filled with the issue's author
\* and the topic URL of a DiscourseDone record of that issue in the log,
\* whether or not the issue is stale when it is resumed.
C21_ResumeUsesExtra ==
    \A r \in Events :
        (hist[r].op = "resume" /\ hist[r].step = discourseDone) =>
            \A m \in (r + 1)..Len(hist) :
                (/\ hist[m].op = "comment" /\ hist[m].run = hist[r].run
                 /\ hist[m].iss = hist[r].iss) =>
                    \E s \in 1..(r - 1) :
                        /\ IsSave(hist[s]) /\ hist[s].ok
                        /\ hist[s].step = discourseDone
                        /\ hist[s].iss = hist[r].iss
                        /\ hist[m].body =
                              Sprintf("activeTpl", <<Login(hist[r].iss), hist[s].text>>)

====
